---- MODULE Spec2Model ----
(***************************************************************************)
(* Model of the batch analysis orchestrator of the Resurface frontend:     *)
(* the React hook useImageAnalysis (hooks/useImageAnalysis.js), the file   *)
(* validation of utils/fileUtils.js and the provider call analyzeImage of  *)
(* services/api.js.                                                        *)
(*                                                                         *)
(* JavaScript runs one synchronous block at a time, so every action below  *)
(* is one synchronous block of a handler: from its call, or from the       *)
(* settlement of the promise it awaits, up to its next await or its        *)
(* return.  The functional updaters given to setImages are applied in the  *)
(* order in which they are queued, each to the state left by the one       *)
(* before; a callback reads the `images` of the latest committed render.   *)
(***************************************************************************)
EXTENDS Integers, Sequences, FiniteSets, Bags, TLC

----------------------------------------------------------------------------
(* Bounds of the model                                                     *)

MaxImages == 2      \* tracked items, those still being prepared included
MaxFiles == 2       \* raw files handed to one addImages call
MaxAdds == 1        \* addImages calls awaiting a preview at one time
MaxRuns == 2        \* analyzeAllImages calls in progress at one time
MaxReanalyze == 1   \* reanalyzeImage calls in progress at one time
MaxClock == 1       \* Date.now() ranges over 0..MaxClock

----------------------------------------------------------------------------
(* utils/fileUtils.js                                                      *)

ALLOWED_FORMATS == {"image/jpeg", "image/jpg", "image/png"}

MAX_FILE_SIZE == 10 * 1024 * 1024

\* String.prototype.toLowerCase on the MIME types the model draws from.
toLowerCase(s) ==
    CASE s = "IMAGE/PNG" -> "image/png"
      [] s = "Image/Gif" -> "image/gif"
      [] OTHER -> s

\* The File objects a caller can hand in: name, MIME type, byte size.
Files ==
    { [name |-> "a.png", type |-> "IMAGE/PNG", size |-> MAX_FILE_SIZE],
      [name |-> "b.gif", type |-> "Image/Gif", size |-> 1],
      [name |-> "c.jpg", type |-> "image/jpeg", size |-> MAX_FILE_SIZE + 1] }

isValidImageFormat(file) == toLowerCase(file.type) \in ALLOWED_FORMATS

isValidFileSize(file) == file.size <= MAX_FILE_SIZE

InvalidFormatError == "Invalid format. Only JPG, JPEG, and PNG are allowed."

FileTooLargeError == "File too large. Maximum size is 10MB."

\* (a validation that forgets the size limit)
validateFile_NoSizeCheck(file) ==
    IF ~isValidImageFormat(file)
    THEN [valid |-> FALSE, error |-> InvalidFormatError]
    ELSE [valid |-> TRUE, error |-> "null"]

\* (a validation that looks at the size before the format)
validateFile_SizeFirst(file) ==
    IF ~isValidFileSize(file)
    THEN [valid |-> FALSE, error |-> FileTooLargeError]
    ELSE IF ~isValidImageFormat(file)
    THEN [valid |-> FALSE, error |-> InvalidFormatError]
    ELSE [valid |-> TRUE, error |-> "null"]

validateFile(file) ==
    IF ~isValidImageFormat(file)
    THEN [valid |-> FALSE, error |-> InvalidFormatError]
    ELSE IF ~isValidFileSize(file)
    THEN [valid |-> FALSE, error |-> FileTooLargeError]
    ELSE [valid |-> TRUE, error |-> "null"]

\* Math.random().toString(36).substr(2, 9): the random suffix of an id.
RandomSuffixes == {"x", "y"}

\* generateId(): `${Date.now()}-${random suffix}`.  Nothing in the code makes
\* two calls differ: the same millisecond and the same suffix give the same id.
generateId == (0 .. MaxClock) \X RandomSuffixes

\* The ids are opaque and only ever compared for equality.  Where the random
\* suffixes are taken never to repeat, the id a call returns is one not yet
\* issued, and which one makes no difference: the least in a fixed order.
IdBefore(a, b) == a[1] < b[1] \/ (a[1] = b[1] /\ a[2] = "x" /\ b[2] = "y")

FreshIds(used) ==
    {id \in generateId \ used :
        \A other \in generateId \ used : other = id \/ IdBefore(id, other)}

----------------------------------------------------------------------------
(* hooks/useImageAnalysis.js: state                                        *)

VARIABLES
    images,      \* useState([]): the tracked collection
    isAnalyzing, \* useState(false): the run-in-progress flag
    progress,    \* useState({current: 0, total: 0})
    adds,        \* addImages calls suspended at await createFilePreview
    runs,        \* analyzeAllImages calls suspended at await analyzeImage
    reanalyses,  \* reanalyzeImage calls suspended at await analyzeImage
    issued,      \* the ids generateId has returned so far
    batch        \* the batchAnalyzeImages call of services/api.js

vars ==
    <<images, isAnalyzing, progress, adds, runs, reanalyses, issued, batch>>

NoResult == [kind |-> "null"]

PreviewError == "Failed to create preview"

\* No call of batchAnalyzeImages has been made.
NoBatch ==
    [status |-> "idle", files |-> <<>>, reports |-> FALSE, i |-> 0,
     asked |-> <<>>, results |-> <<>>, calls |-> <<>>]

Init ==
    /\ images = <<>>
    /\ isAnalyzing = FALSE
    /\ progress = [current |-> 0, total |-> 0]
    /\ adds = EmptyBag
    /\ runs = EmptyBag
    /\ reanalyses = EmptyBag
    /\ issued = {}
    /\ batch = NoBatch

\* One element taken out of a bag.
BagRemove(B, e) == B (-) SetToBag({e})

BagAdd(B, e) == B (+) SetToBag({e})

Ids(imgs) == {imgs[n].id : n \in DOMAIN imgs}

----------------------------------------------------------------------------
(* addImages                                                               *)

\* The for loop of addImages from file k on, up to the next
\* await createFilePreview (k <= Len) or the end of the loop (k > Len).
RECURSIVE AddLoop(_, _, _)
AddLoop(fileArray, k, results) ==
    IF k > Len(fileArray)
    THEN [k |-> k, results |-> results]
    ELSE LET validation == validateFile(fileArray[k]) IN
         IF ~validation.valid
         THEN AddLoop(fileArray, k + 1,
                      [results EXCEPT !.rejected =
                          Append(@, [file |-> fileArray[k].name,
                                     reason |-> validation.error])])
         ELSE [k |-> k, results |-> results]

NewImage(id, file) ==
    [id |-> id, file |-> file, preview |-> file.name,
     status |-> "pending", result |-> NoResult]

\* The images an addImages call in flight may still append.
RECURSIVE CountValid(_)
CountValid(fileArray) ==
    IF fileArray = <<>> THEN 0
    ELSE (IF validateFile(Head(fileArray)).valid THEN 1 ELSE 0)
         + CountValid(Tail(fileArray))

RECURSIVE Reserved(_)
Reserved(B) ==
    IF BagToSet(B) = {} THEN 0
    ELSE LET a == CHOOSE x \in BagToSet(B) : TRUE IN
         CountValid(a.fileArray) + Reserved(BagRemove(B, a))

FileLists == UNION {[1 .. n -> Files] : n \in 0 .. MaxFiles}

\* (a return that puts the new images in front of those already tracked)
AddContinue_Prepend(fileArray, k, newImages, results, rest) ==
    LET at == AddLoop(fileArray, k, results) IN
    IF at.k > Len(fileArray)
    THEN /\ images' = newImages \o images
         /\ adds' = rest
    ELSE /\ images' = images
         /\ adds' = BagAdd(rest, [fileArray |-> fileArray, k |-> at.k,
                                   newImages |-> newImages,
                                   results |-> at.results])

\* The block that follows the loop: setImages(prev => [...prev, ...newImages])
\* and return results; or the suspension at the next await.
AddContinue(fileArray, k, newImages, results, rest) ==
    LET at == AddLoop(fileArray, k, results) IN
    IF at.k > Len(fileArray)
    THEN /\ images' = images \o newImages
         /\ adds' = rest
    ELSE /\ images' = images
         /\ adds' = BagAdd(rest, [fileArray |-> fileArray, k |-> at.k,
                                   newImages |-> newImages,
                                   results |-> at.results])

\* The calls the model follows: MaxAdds calls awaiting a preview, MaxImages
\* items tracked or being prepared.
WithinBounds(files) ==
    /\ BagCardinality(adds) < MaxAdds
    /\ Len(images) + Reserved(adds) + CountValid(files) <= MaxImages

addImages(files) ==
    /\ AddContinue(files, 1, <<>>, [added |-> 0, rejected |-> <<>>], adds)
    /\ UNCHANGED <<isAnalyzing, progress, runs, reanalyses, issued, batch>>

\* (a catch block that records nothing of the file whose preview failed)
PreviewResult_SilentFailure(a, ok, id) ==
    LET file == a.fileArray[a.k] IN
    IF ok
    THEN [newImages |-> Append(a.newImages, NewImage(id, file)),
          results |-> [a.results EXCEPT !.added = @ + 1]]
    ELSE [newImages |-> a.newImages, results |-> a.results]

\* (a rejection that passes on the name of the reader's error)
PreviewResult_RawReason(a, ok, id) ==
    LET file == a.fileArray[a.k] IN
    IF ok
    THEN [newImages |-> Append(a.newImages, NewImage(id, file)),
          results |-> [a.results EXCEPT !.added = @ + 1]]
    ELSE [newImages |-> a.newImages,
          results |-> [a.results EXCEPT !.rejected =
                          Append(@, [file |-> file.name,
                                     reason |-> "NotReadableError"])]]

\* createFilePreview(file) settles: reader.onloadend resolves, onerror rejects.
\* The rest of the iteration: the image pushed, or the rejection.
PreviewResult(a, ok, id) ==
    LET file == a.fileArray[a.k] IN
    IF ok
    THEN [newImages |-> Append(a.newImages, NewImage(id, file)),
          results |-> [a.results EXCEPT !.added = @ + 1]]
    ELSE [newImages |-> a.newImages,
          results |-> [a.results EXCEPT !.rejected =
                          Append(@, [file |-> file.name,
                                     reason |-> PreviewError])]]

PreviewSettled(a, ok, id) ==
    /\ BagIn(a, adds)
    /\ LET pushed == PreviewResult(a, ok, id) IN
       AddContinue(a.fileArray, a.k + 1, pushed.newImages, pushed.results,
                   BagRemove(adds, a))
    /\ issued' = IF ok THEN issued \cup {id} ELSE issued
    /\ UNCHANGED <<isAnalyzing, progress, runs, reanalyses, batch>>

----------------------------------------------------------------------------
(* removeImage, clearAllImages                                             *)

\* (a filter that also drops whatever follows the item)
Filter_DropRest(imgs, imageId) ==
    IF \E n \in DOMAIN imgs : imgs[n].id = imageId
    THEN SubSeq(imgs, 1, (CHOOSE n \in DOMAIN imgs : imgs[n].id = imageId) - 1)
    ELSE imgs

Filter(imgs, imageId) == SelectSeq(imgs, LAMBDA img : img.id # imageId)

removeImage(imageId) ==
    /\ images' = Filter(images, imageId)
    /\ UNCHANGED <<isAnalyzing, progress, adds, runs, reanalyses, issued,
                   batch>>

\* (a clear that leaves the progress counters alone)
clearAllImages_KeepProgress ==
    /\ images' = <<>>
    /\ UNCHANGED <<progress, isAnalyzing, adds, runs, reanalyses, issued,
                   batch>>

clearAllImages ==
    /\ images' = <<>>
    /\ progress' = [current |-> 0, total |-> 0]
    /\ UNCHANGED <<isAnalyzing, adds, runs, reanalyses, issued, batch>>

----------------------------------------------------------------------------
(* services/api.js: analyzeImage                                           *)

\* What apiClient.post('/analyze') can do: answer with a JSON body (a success
\* response, or no body at all), or fail with an error that may carry the
\* server's error text (error.response.data.error) and a message.
SuccessBody(isFake) ==
    [isNull |-> FALSE, success |-> TRUE,
     data |-> [kind |-> "data", isFake |-> isFake], error |-> "null"]

NullBody ==
    [isNull |-> TRUE, success |-> FALSE, data |-> NoResult, error |-> "null"]

TimeoutMessage == "timeout of 30000ms exceeded"

Transports ==
    {[http |-> "ok", body |-> SuccessBody(b)] : b \in BOOLEAN}
    \cup {[http |-> "ok", body |-> NullBody]}
    \cup {[http |-> "error", serverError |-> "null",
           message |-> TimeoutMessage]}

\* A text as the operator || reads it: null, undefined ("null" here) and the
\* empty string are falsy.
Truthy(text) == text \notin {"null", ""}

\* (a catch block that prefers the message of the exception to the server's
\* error text)
analyzeImage_MessageFirst(transport) ==
    IF transport.http = "ok"
    THEN transport.body
    ELSE [isNull |-> FALSE, success |-> FALSE, data |-> NoResult,
          error |-> IF Truthy(transport.message)
                    THEN transport.message
                    ELSE IF Truthy(transport.serverError)
                    THEN transport.serverError
                    ELSE "Analysis failed"]

\* The response analyzeImage resolves with (it never rejects): response.data
\* of a call that succeeded, a success=false response built in its catch
\* block otherwise.
analyzeImage(transport) ==
    IF transport.http = "ok"
    THEN transport.body
    ELSE [isNull |-> FALSE, success |-> FALSE, data |-> NoResult,
          error |-> IF Truthy(transport.serverError)
                    THEN transport.serverError
                    ELSE IF Truthy(transport.message)
                    THEN transport.message
                    ELSE "Analysis failed"]

Responses == {analyzeImage(t) : t \in Transports}

\* error.message of the TypeError that reading response.success throws when
\* the response is null; it is caught by the catch block of the caller.
TypeErrorMessage == "Cannot read properties of null (reading 'success')"

----------------------------------------------------------------------------
(* analyzeAllImages                                                        *)

\* (a write that also puts every other item in analyzing back to pending)
SetAnalyzing_ResetOthers(imgs, id) ==
    [n \in DOMAIN imgs |->
        IF imgs[n].id = id THEN [imgs[n] EXCEPT !.status = "analyzing"]
        ELSE IF imgs[n].status = "analyzing"
        THEN [imgs[n] EXCEPT !.status = "pending"]
        ELSE imgs[n]]

\* prev.map(img => img.id === id ? { ...img, status: 'analyzing' } : img)
SetAnalyzing(imgs, id) ==
    [n \in DOMAIN imgs |->
        IF imgs[n].id = id THEN [imgs[n] EXCEPT !.status = "analyzing"]
        ELSE imgs[n]]

\* (a write that puts back an item that is no longer in the collection)
SetResult_PutBack(imgs, id, status, result) ==
    IF \E n \in DOMAIN imgs : imgs[n].id = id
    THEN [n \in DOMAIN imgs |->
            IF imgs[n].id = id
            THEN [imgs[n] EXCEPT !.status = status, !.result = result]
            ELSE imgs[n]]
    ELSE Append(imgs, [id |-> id, file |-> CHOOSE f \in Files : TRUE,
                       preview |-> "", status |-> status, result |-> result])

\* (a write that moves the item written to the end of the collection)
SetResult_MoveToEnd(imgs, id, status, result) ==
    SelectSeq(imgs, LAMBDA img : img.id # id)
    \o [n \in 1 .. Cardinality({m \in DOMAIN imgs : imgs[m].id = id}) |->
          [(CHOOSE img \in {imgs[m] : m \in DOMAIN imgs} : img.id = id)
              EXCEPT !.status = status, !.result = result]]

\* prev.map(img => img.id === id ? { ...img, status, result } : img)
SetResult(imgs, id, status, result) ==
    [n \in DOMAIN imgs |->
        IF imgs[n].id = id
        THEN [imgs[n] EXCEPT !.status = status, !.result = result]
        ELSE imgs[n]]

\* (a catch block that writes nothing: the item stays as it is, in analyzing)
Settle_NoCatch(response) ==
    IF response.isNull
    THEN [status |-> "analyzing", result |-> NoResult]
    ELSE IF response.success
    THEN [status |-> "completed", result |-> response.data]
    ELSE [status |-> "error",
          result |-> [kind |-> "error", error |-> response.error]]

\* The try/catch around await analyzeImage: the status and the result that the
\* settled call writes.
Settle(response) ==
    IF response.isNull
    THEN [status |-> "error",
          result |-> [kind |-> "error", error |-> TypeErrorMessage]]
    ELSE IF response.success
    THEN [status |-> "completed", result |-> response.data]
    ELSE [status |-> "error",
          result |-> [kind |-> "error", error |-> response.error]]

PendingImages(imgs) == SelectSeq(imgs, LAMBDA img : img.status = "pending")

\* The snapshot keeps of an image what the loop reads: image.id and image.file.
Snapshot(imgs) ==
    [n \in DOMAIN imgs |-> [id |-> imgs[n].id, file |-> imgs[n].file]]

\* (a loop that a failed analysis ends)
LoopContinues_AbortOnFailure(pendingImages, i, response) ==
    i < Len(pendingImages) /\ ~response.isNull /\ response.success

\* Whether the loop goes on to another iteration after iteration i (1-based).
LoopContinues(pendingImages, i, response) == i < Len(pendingImages)

\* (a call without the early return: with nothing pending it sets the flag,
\* resets the counter, walks an empty list and clears the flag)
analyzeAllImages_NoEarlyReturn ==
    LET pendingImages == Snapshot(PendingImages(images)) IN
    IF Len(pendingImages) = 0
    THEN /\ isAnalyzing' = FALSE
         /\ progress' = [current |-> 0, total |-> 0]
         /\ UNCHANGED <<images, adds, runs, reanalyses, issued, batch>>
    ELSE /\ BagCardinality(runs) < MaxRuns
         /\ isAnalyzing' = TRUE
         /\ progress' = [current |-> 0, total |-> Len(pendingImages)]
         /\ images' = SetAnalyzing(images, pendingImages[1].id)
         /\ runs' = BagAdd(runs, [pendingImages |-> pendingImages, i |-> 1])
         /\ UNCHANGED <<adds, reanalyses, issued, batch>>

\* From the call to the first await analyzeImage(image.file).
analyzeAllImages ==
    LET pendingImages == Snapshot(PendingImages(images)) IN
    IF Len(pendingImages) = 0
    THEN UNCHANGED vars
    ELSE /\ BagCardinality(runs) < MaxRuns
         /\ isAnalyzing' = TRUE
         /\ progress' = [current |-> 0, total |-> Len(pendingImages)]
         /\ images' = SetAnalyzing(images, pendingImages[1].id)
         /\ runs' = BagAdd(runs, [pendingImages |-> pendingImages, i |-> 1])
         /\ UNCHANGED <<adds, reanalyses, issued, batch>>

\* (a total recomputed from the collection as it is now)
ProgressAfter_LiveTotal(run, response) ==
    [current |-> run.i, total |-> Len(images)]

\* (a counter that only a successful item advances)
ProgressAfter_OnSuccessOnly(run, response) ==
    IF response.isNull \/ ~response.success
    THEN progress
    ELSE [current |-> run.i, total |-> Len(run.pendingImages)]

\* setProgress({ current: i + 1, total: pendingImages.length }), at the end of
\* iteration run.i (1-based), whatever the call of the iteration came to.
ProgressAfter(run, response) ==
    [current |-> run.i, total |-> Len(run.pendingImages)]

\* The call awaited in iteration run.i settles: the rest of the iteration, then
\* the next iteration up to its await, or the end of the loop.
AnalyzeSettled(run, response) ==
    /\ BagIn(run, runs)
    /\ LET image == run.pendingImages[run.i]
           written == Settle(response)
           settled == SetResult(images, image.id, written.status,
                                written.result)
       IN
       /\ progress' = ProgressAfter(run, response)
       /\ IF LoopContinues(run.pendingImages, run.i, response)
          THEN /\ images' = SetAnalyzing(settled,
                                         run.pendingImages[run.i + 1].id)
               /\ runs' = BagAdd(BagRemove(runs, run),
                                 [run EXCEPT !.i = @ + 1])
               /\ isAnalyzing' = isAnalyzing
          ELSE /\ images' = settled
               /\ runs' = BagRemove(runs, run)
               /\ isAnalyzing' = FALSE
    /\ UNCHANGED <<adds, reanalyses, issued, batch>>

----------------------------------------------------------------------------
(* reanalyzeImage                                                          *)

\* (a reset that keeps the earlier result)
ResetAnalyzing_KeepResult(imgs, id) == SetAnalyzing(imgs, id)

\* prev.map(img => img.id === id ?
\*                 { ...img, status: 'analyzing', result: null } : img)
ResetAnalyzing(imgs, id) == SetResult(imgs, id, "analyzing", NoResult)

\* From the call to await analyzeImage(image.file).
reanalyzeImage(imageId) ==
    IF \A n \in DOMAIN images : images[n].id # imageId
    THEN UNCHANGED vars
    ELSE LET n == CHOOSE m \in DOMAIN images :
                    /\ images[m].id = imageId
                    /\ \A k \in 1 .. m - 1 : images[k].id # imageId
         IN
         /\ BagCardinality(reanalyses) < MaxReanalyze
         /\ images' = ResetAnalyzing(images, imageId)
         /\ reanalyses' = BagAdd(reanalyses, [imageId |-> imageId,
                                              file |-> images[n].file])
         /\ UNCHANGED <<isAnalyzing, progress, adds, runs, issued, batch>>

ReanalyzeSettled(re, response) ==
    /\ BagIn(re, reanalyses)
    /\ LET written == Settle(response) IN
       images' = SetResult(images, re.imageId, written.status, written.result)
    /\ reanalyses' = BagRemove(reanalyses, re)
    /\ UNCHANGED <<isAnalyzing, progress, adds, runs, issued, batch>>

----------------------------------------------------------------------------
(* getStats                                                                *)

\* (a count that leaves out the items in error)
CountStatus_SkipError(imgs, status) ==
    IF status = "error" THEN 0
    ELSE Cardinality({n \in DOMAIN imgs : imgs[n].status = status})

\* images.forEach(img => { stats[img.status]++; ... })
CountStatus(imgs, status) ==
    Cardinality({n \in DOMAIN imgs : imgs[n].status = status})

\* img.result.isFake, as JavaScript reads it: undefined (falsy) on a result
\* that carries an error.
IsFake(result) == result.kind = "data" /\ result.isFake

getStats(imgs) ==
    LET counted == {n \in DOMAIN imgs : /\ imgs[n].status = "completed"
                                         /\ imgs[n].result # NoResult}
    IN
    [total |-> Len(imgs),
     pending |-> CountStatus(imgs, "pending"),
     analyzing |-> CountStatus(imgs, "analyzing"),
     completed |-> CountStatus(imgs, "completed"),
     error |-> CountStatus(imgs, "error"),
     fake |-> Cardinality({n \in counted : IsFake(imgs[n].result)}),
     real |-> Cardinality({n \in counted : ~IsFake(imgs[n].result)})]

----------------------------------------------------------------------------
(* Specifications                                                          *)

\* The ids a caller passes to removeImage and reanalyzeImage: those of the
\* tracked items, and one id that no tracked item has.
CallIds ==
    Ids(images) \cup FreshIds(Ids(images))

\* Any caller of the hook: every operation may be called at any time, also
\* while earlier calls are suspended at an await.
Next ==
    \/ \E files \in FileLists : WithinBounds(files) /\ addImages(files)
    \/ \E a \in BagToSet(adds), ok \in BOOLEAN, id \in FreshIds(issued) :
          PreviewSettled(a, ok, id)
    \/ \E imageId \in CallIds : removeImage(imageId)
    \/ clearAllImages
    \/ analyzeAllImages
    \/ \E run \in BagToSet(runs), response \in Responses :
          AnalyzeSettled(run, response)
    \/ \E imageId \in CallIds : reanalyzeImage(imageId)
    \/ \E re \in BagToSet(reanalyses), response \in Responses :
          ReanalyzeSettled(re, response)

Spec == Init /\ [][Next]_vars

\* A caller that issues one operation at a time: an operation is called only
\* when no earlier call is suspended at an await.
Quiescent == adds = EmptyBag /\ runs = EmptyBag /\ reanalyses = EmptyBag

NextSolo ==
    \/ Quiescent /\ \E files \in FileLists :
          WithinBounds(files) /\ addImages(files)
    \/ \E a \in BagToSet(adds), ok \in BOOLEAN, id \in FreshIds(issued) :
          PreviewSettled(a, ok, id)
    \/ Quiescent /\ \E imageId \in CallIds : removeImage(imageId)
    \/ Quiescent /\ clearAllImages
    \/ Quiescent /\ analyzeAllImages
    \/ \E run \in BagToSet(runs), response \in Responses :
          AnalyzeSettled(run, response)
    \/ Quiescent /\ \E imageId \in CallIds : reanalyzeImage(imageId)
    \/ \E re \in BagToSet(reanalyses), response \in Responses :
          ReanalyzeSettled(re, response)

SpecSolo == Init /\ [][NextSolo]_vars

\* A caller that reaches the hook only through the controls App.jsx renders.
\* UploadZone is disabled while isAnalyzing, and passes on a non-empty list.
handleFilesAdded(files) ==
    /\ ~isAnalyzing
    /\ Len(files) > 0
    /\ addImages(files)

\* ActionBar is rendered when there are images; Analyze All is disabled unless
\* an image is pending and no run is in progress.
onAnalyze ==
    /\ Len(images) > 0
    /\ getStats(images).pending > 0
    /\ ~isAnalyzing
    /\ analyzeAllImages

\* (a Clear All button that stays enabled during a run)
handleClearAll_AlwaysEnabled ==
    /\ Len(images) > 0
    /\ clearAllImages

\* Clear All is disabled while isAnalyzing (and the user confirms the prompt).
handleClearAll ==
    /\ Len(images) > 0
    /\ ~isAnalyzing
    /\ clearAllImages

\* Every ImageCard has its Remove button.
onRemove(n) == removeImage(images[n].id)

\* (a card that offers Re-analyze whatever the status of its image)
onReanalyze_AnyStatus(n) == reanalyzeImage(images[n].id)

\* An ImageCard offers Re-analyze when its image is completed or error.
onReanalyze(n) ==
    /\ images[n].status \in {"completed", "error"}
    /\ reanalyzeImage(images[n].id)

NextUI ==
    \/ \E files \in FileLists : WithinBounds(files) /\ handleFilesAdded(files)
    \/ \E a \in BagToSet(adds), ok \in BOOLEAN, id \in FreshIds(issued) :
          PreviewSettled(a, ok, id)
    \/ \E n \in DOMAIN images : onRemove(n)
    \/ handleClearAll
    \/ onAnalyze
    \/ \E run \in BagToSet(runs), response \in Responses :
          AnalyzeSettled(run, response)
    \/ \E n \in DOMAIN images : onReanalyze(n)
    \/ \E re \in BagToSet(reanalyses), response \in Responses :
          ReanalyzeSettled(re, response)

SpecUI == Init /\ [][NextUI]_vars

----------------------------------------------------------------------------
(* Properties                                                              *)

Terminal(img) == img.status \in {"completed", "error"}

HasResult(img) == img.result # NoResult

\* C1: in every reachable state every tracked item has a result if and only
\* if its status is completed or error.
C1_ResultIffTerminal ==
    \A n \in DOMAIN images : HasResult(images[n]) <=> Terminal(images[n])

\* The tracked item with the given id, and its place in the collection.
IndexOf(imgs, id) == CHOOSE n \in DOMAIN imgs : imgs[n].id = id

Item(imgs, id) == imgs[IndexOf(imgs, id)]

\* A snapshot that lists exactly the pending items of imgs, in their order.
IsPendingInOrder(snapshot, imgs) ==
    /\ {snapshot[p].id : p \in DOMAIN snapshot}
          = {imgs[n].id : n \in {m \in DOMAIN imgs : imgs[m].status = "pending"}}
    /\ \A p, q \in DOMAIN snapshot :
          p < q => IndexOf(imgs, snapshot[p].id) < IndexOf(imgs, snapshot[q].id)

\* A run that has come to item i of its snapshot has left every earlier item
\* completed or error, has item i in analyzing and every later item pending.
WalkInOrder(run, imgs) ==
    \A p \in DOMAIN run.pendingImages :
        LET id == run.pendingImages[p].id IN
        /\ id \in Ids(imgs)
        /\ p < run.i => Terminal(Item(imgs, id))
        /\ p = run.i => Item(imgs, id).status = "analyzing"
        /\ p > run.i => Item(imgs, id).status = "pending"

\* C2: a runBatch called with N items pending takes exactly those N items, in
\* submission order, visits them one after the other in that order and, when
\* it ends, has left every one of them completed or error and no other item
\* changed, whichever of the provider calls failed (one caller, one operation
\* at a time).
C2_BatchVisitsAllInOrder ==
    /\ [](\A run \in BagToSet(runs) : WalkInOrder(run, images))
    /\ [][analyzeAllImages /\ runs' # runs =>
            \A run \in BagToSet(runs') :
                /\ run.i = 1
                /\ Len(run.pendingImages) = getStats(images).pending
                /\ IsPendingInOrder(run.pendingImages, images)]_vars
    /\ [][\A run \in BagToSet(runs), response \in Responses :
            AnalyzeSettled(run, response) /\ runs' = BagRemove(runs, run) =>
                /\ Len(images') = Len(images)
                /\ \A n \in DOMAIN images :
                      IF \E p \in DOMAIN run.pendingImages :
                            run.pendingImages[p].id = images[n].id
                      THEN /\ Terminal(images'[n])
                           /\ HasResult(images'[n])
                           /\ images'[n].id = images[n].id
                      ELSE images'[n] = images[n]]_vars

\* A batch of two items has ended with one item in error and one completed.
C2_Witness ==
    /\ Quiescent
    /\ isAnalyzing = FALSE
    /\ progress = [current |-> 2, total |-> 2]
    /\ Len(images) = 2
    /\ images[1].status = "error"
    /\ images[2].status = "completed"

\* The ids of the items that a step has put into analyzing.
NewlyAnalyzing(before, after) ==
    {after[n].id : n \in {m \in DOMAIN after :
        /\ after[m].status = "analyzing"
        /\ \A k \in DOMAIN before :
              before[k].id = after[m].id => before[k].status # "analyzing"}}

\* The snapshot items of a run that are tracked and in analyzing.
AnalyzingOf(run, imgs) ==
    {p \in DOMAIN run.pendingImages :
        \E n \in DOMAIN imgs : /\ imgs[n].id = run.pendingImages[p].id
                                /\ imgs[n].status = "analyzing"}

\* C3 (amended): within one runBatch the analysis is strictly sequential: the
\* call puts one item into analyzing and starts one provider call; the step
\* that starts the provider call for the next snapshot item is the step that
\* has written completed or error to the previous one, it puts that next item
\* and no other into analyzing, and it leaves the number of calls in flight
\* as it was.
C3_Sequential ==
    /\ [][analyzeAllImages /\ runs' # runs =>
            /\ BagCardinality(runs') = BagCardinality(runs) + 1
            /\ Cardinality(NewlyAnalyzing(images, images')) = 1]_vars
    /\ [][\A run \in BagToSet(runs), response \in Responses :
            AnalyzeSettled(run, response) =>
                LET id == run.pendingImages[run.i].id
                    started == NewlyAnalyzing(images, images')
                IN
                /\ id \in Ids(images') => Terminal(Item(images', id))
                /\ BagCardinality(runs') <= BagCardinality(runs)
                /\ IF run.i < Len(run.pendingImages)
                   THEN started \subseteq {run.pendingImages[run.i + 1].id}
                   ELSE started = {}]_vars

\* C3 (as stated): ... and no run ever has two of its snapshot items in
\* analyzing at once.
C3_Original ==
    /\ C3_Sequential
    /\ [](\A run \in BagToSet(runs) :
            Cardinality(AnalyzingOf(run, images)) <= 1)

\* A run has started the call for its second item, the first being settled.
C3_Witness ==
    \E run \in BagToSet(runs) :
        /\ run.i = 2
        /\ run.pendingImages[1].id \in Ids(images)
        /\ Terminal(Item(images, run.pendingImages[1].id))
        /\ AnalyzingOf(run, images) = {2}

\* The analysis operations in flight on an id: the runs whose current item it
\* is, and the reanalyzeImage calls for it.
RECURSIVE SumCopies(_, _)
SumCopies(B, S) ==
    IF S = {} THEN 0
    ELSE LET e == CHOOSE x \in S : TRUE IN
         CopiesIn(e, B) + SumCopies(B, S \ {e})

InFlightOn(id) ==
    SumCopies(runs, {run \in BagToSet(runs) :
                        run.pendingImages[run.i].id = id})
    + SumCopies(reanalyses, {re \in BagToSet(reanalyses) : re.imageId = id})

\* C4: for every item id, at no time are two analysis operations (a
\* reanalyze, or the step of a runBatch that is processing the id) in flight
\* on that id.
C4_PerItemMutualExclusion == \A id \in generateId : InFlightOn(id) <= 1

\* One step of a batch run, and one call of reanalyzeImage.
BatchStep ==
    \/ analyzeAllImages
    \/ \E run \in BagToSet(runs), response \in Responses :
          AnalyzeSettled(run, response)

ReanalyzeCall == \E imageId \in Ids(images) : reanalyzeImage(imageId)

\* C5: the status of an item changes only from pending to analyzing and from
\* analyzing to completed or error; only reanalyze moves an item that is
\* completed or error back to analyzing, a step of a batch run never does.
C5_MonotonicTransitions ==
    [][\A n \in DOMAIN images, m \in DOMAIN images' :
          images[n].id = images'[m].id /\ images[n].status # images'[m].status
          => \/ /\ images[n].status = "pending"
                /\ images'[m].status = "analyzing"
             \/ /\ images[n].status = "analyzing"
                /\ Terminal(images'[m])
             \/ /\ Terminal(images[n])
                /\ images'[m].status = "analyzing"
                /\ ReanalyzeCall
                /\ ~BatchStep]_vars

Failed(response) == response.isNull \/ ~response.success

\* C6: a provider call that fails for one snapshot item never aborts the
\* batch run and is never thrown out of it: the step that takes the failure
\* writes error, with a result carrying a message, to the item, advances the
\* progress counter, and goes on to the next snapshot item (or, after the
\* last one, ends the run in the ordinary way).
C6_FailureNeverAborts ==
    [][\A run \in BagToSet(runs), response \in Responses :
          AnalyzeSettled(run, response) /\ Failed(response) =>
              LET id == run.pendingImages[run.i].id
                  total == Len(run.pendingImages)
              IN
              /\ id \in Ids(images') =>
                    /\ Item(images', id).status = "error"
                    /\ Item(images', id).result.kind = "error"
                    /\ Item(images', id).result.error
                          \in {TimeoutMessage, TypeErrorMessage}
              /\ progress' = [current |-> run.i, total |-> total]
              /\ IF run.i < total
                 THEN /\ BagIn([run EXCEPT !.i = run.i + 1], runs')
                      /\ BagCardinality(runs') = BagCardinality(runs)
                      /\ isAnalyzing' = isAnalyzing
                      /\ LET next == run.pendingImages[run.i + 1].id IN
                         next \in Ids(images') =>
                            Item(images', next).status = "analyzing"
                 ELSE /\ runs' = BagRemove(runs, run)
                      /\ isAnalyzing' = FALSE]_vars

\* A run has gone on to its second item after the first one failed.
C6_Witness ==
    \E run \in BagToSet(runs) :
        /\ run.i = 2
        /\ run.pendingImages[1].id \in Ids(images)
        /\ Item(images, run.pendingImages[1].id).status = "error"
        /\ run.pendingImages[2].id \in Ids(images)
        /\ Item(images, run.pendingImages[2].id).status = "analyzing"
        /\ progress = [current |-> 1, total |-> 2]

\* The steps in which an addImages call returns, with what it was called with
\* and what it returns.
AddReturnsSync(files) == addImages(files) /\ adds' = adds

ReturnedSync(files) ==
    AddLoop(files, 1, [added |-> 0, rejected |-> <<>>]).results

AddReturnsAfterPreview(a, ok, id) ==
    PreviewSettled(a, ok, id) /\ adds' = BagRemove(adds, a)

ReturnedAfterPreview(a, ok, id) ==
    AddLoop(a.fileArray, a.k + 1, PreviewResult(a, ok, id).results).results

\* The policy, as the files have it.
FailsPolicy(file) ==
    \/ toLowerCase(file.type) \notin {"image/jpeg", "image/jpg", "image/png"}
    \/ file.size > 10 * 1024 * 1024

ValidationReasons == {InvalidFormatError, FileTooLargeError}

RECURSIVE IsSubSeq(_, _)
IsSubSeq(s, t) ==
    IF s = <<>> THEN TRUE
    ELSE IF t = <<>> THEN FALSE
    ELSE IF Head(s) = Head(t) THEN IsSubSeq(Tail(s), Tail(t))
    ELSE IsSubSeq(s, Tail(t))

\* What a returning addImages call has to have done with its raw files.
SubmitRejectsInvalid(files, results) ==
    LET appended == SubSeq(images', Len(images) + 1, Len(images')) IN
    /\ Len(images') >= Len(images)
    /\ SubSeq(images', 1, Len(images)) = images
    /\ \A name \in {files[k].name : k \in DOMAIN files} :
          Cardinality({j \in DOMAIN results.rejected :
                          /\ results.rejected[j].file = name
                          /\ results.rejected[j].reason \in ValidationReasons})
          = Cardinality({k \in DOMAIN files :
                            files[k].name = name /\ FailsPolicy(files[k])})
    /\ \A j \in DOMAIN appended : ~FailsPolicy(appended[j].file)
    /\ IsSubSeq([j \in DOMAIN appended |-> appended[j].file],
                SelectSeq(files, LAMBDA file : ~FailsPolicy(file)))

\* C7: for every raw item that fails the format or the size policy, submit
\* creates no tracked item and reports exactly one rejection entry naming it;
\* the collection grows only by items that passed validation.
C7_InvalidRejectedOnce ==
    /\ [][\A files \in FileLists :
            AddReturnsSync(files) =>
                SubmitRejectsInvalid(files, ReturnedSync(files))]_vars
    /\ [][\A a \in BagToSet(adds), ok \in BOOLEAN, id \in generateId :
            AddReturnsAfterPreview(a, ok, id) =>
                SubmitRejectsInvalid(a.fileArray,
                                     ReturnedAfterPreview(a, ok, id))]_vars
    /\ [](\A a \in BagToSet(adds) :
            /\ \A j \in DOMAIN a.newImages : ~FailsPolicy(a.newImages[j].file)
            /\ ~FailsPolicy(a.fileArray[a.k]))

\* An addImages call has rejected its first file and awaits the preview of
\* its second.
C7_Witness ==
    \E a \in BagToSet(adds) :
        /\ a.k = 2
        /\ FailsPolicy(a.fileArray[1])
        /\ a.fileArray[1].size > MAX_FILE_SIZE
        /\ a.results = [added |-> 0,
                        rejected |-> <<[file |-> a.fileArray[1].name,
                                        reason |-> FileTooLargeError]>>]
        /\ a.newImages = <<>>

\* C8: a clear() issued while a runBatch is in progress takes no effect during
\* the run: while the run-in-progress flag is true the collection is not
\* emptied and the progress counters are not reset by it.
C8_ClearRejectedWhileBusy ==
    [][clearAllImages /\ isAnalyzing => UNCHANGED <<images, progress>>]_vars

\* C9: after clear(), whatever came before, the collection is empty, stats()
\* is zero for the total, every state and every verdict, and the progress
\* counter is current=0, total=0.
C9_ClearLeavesNothing ==
    [][clearAllImages =>
          /\ images' = <<>>
          /\ getStats(images') = [total |-> 0, pending |-> 0, analyzing |-> 0,
                                  completed |-> 0, error |-> 0, fake |-> 0,
                                  real |-> 0]
          /\ progress' = [current |-> 0, total |-> 0]]_vars

\* The collection was cleared in the middle of a batch run.
C9_Witness ==
    /\ images = <<>>
    /\ progress = [current |-> 0, total |-> 0]
    /\ isAnalyzing
    /\ runs # EmptyBag

\* C10: reanalyze(id) on a tracked item first clears the result and sets the
\* status to analyzing, with the provider call in flight; when the call
\* settles the item is completed with the new result on success, and error
\* with a result carrying the failure message on failure, as in a batch step.
C10_Reanalyze ==
    /\ [][\A imageId \in Ids(images) : reanalyzeImage(imageId) =>
            /\ Item(images', imageId).status = "analyzing"
            /\ ~HasResult(Item(images', imageId))
            /\ reanalyses' = BagAdd(reanalyses,
                   [imageId |-> imageId, file |-> Item(images, imageId).file])
            /\ Len(images') = Len(images)]_vars
    /\ [][\A re \in BagToSet(reanalyses), response \in Responses :
            ReanalyzeSettled(re, response) /\ re.imageId \in Ids(images) =>
                LET item == Item(images', re.imageId) IN
                /\ reanalyses' = BagRemove(reanalyses, re)
                /\ IF ~Failed(response)
                   THEN /\ item.status = "completed"
                        /\ item.result = response.data
                        /\ item.result.kind = "data"
                   ELSE /\ item.status = "error"
                        /\ item.result.kind = "error"
                        /\ item.result.error
                              = (IF response.isNull THEN TypeErrorMessage
                                 ELSE response.error)
                        /\ item.result.error # "null"
                /\ Len(images') = Len(images)]_vars

\* A reanalyzeImage call is in flight on the only item there has been, after
\* the batch run that analysed it: the item is in analyzing, without a result.
C10_Witness ==
    /\ runs = EmptyBag
    /\ Cardinality(issued) = 1
    /\ progress = [current |-> 1, total |-> 1]
    /\ \E re \in BagToSet(reanalyses) :
          /\ re.imageId \in Ids(images)
          /\ Item(images, re.imageId).status = "analyzing"
          /\ ~HasResult(Item(images, re.imageId))

----------------------------------------------------------------------------
(* The snapshot of a run                                                   *)

SnapshotIds(run) == {run.pendingImages[p].id : p \in DOMAIN run.pendingImages}

\* The tracked items that are pending and in no snapshot of the given run.
PendingOutside(run, imgs) ==
    {n \in DOMAIN imgs : /\ imgs[n].status = "pending"
                         /\ imgs[n].id \notin SnapshotIds(run)}

\* C11: runBatch works on a fixed snapshot of the items pending at call time.
\* An item submitted while a run is in progress enters as pending and changes
\* neither the snapshot of the run nor the progress counter; no step of the
\* run touches an item outside its snapshot, and every step reports the
\* length of the snapshot as the total; the next runBatch takes exactly the
\* items pending when it is called, the late ones included.
C11_FixedSnapshot ==
    /\ [][\A a \in BagToSet(adds), ok \in BOOLEAN, id \in generateId :
            PreviewSettled(a, ok, id) =>
                /\ runs' = runs
                /\ progress' = progress
                /\ SubSeq(images', 1, Len(images)) = images
                /\ \A n \in Len(images) + 1 .. Len(images') :
                      images'[n].status = "pending"]_vars
    /\ [][\A run \in BagToSet(runs), response \in Responses :
            AnalyzeSettled(run, response) =>
                /\ progress'.total = Len(run.pendingImages)
                /\ Len(images') = Len(images)
                /\ \A n \in DOMAIN images :
                      images[n].id \notin SnapshotIds(run) =>
                          images'[n] = images[n]
                /\ \A other \in BagToSet(runs') :
                      \/ BagIn(other, runs)
                      \/ other.pendingImages = run.pendingImages]_vars
    /\ [][analyzeAllImages /\ runs' # runs =>
            \E run \in BagToSet(runs') :
                /\ runs' = BagAdd(runs, run)
                /\ IsPendingInOrder(run.pendingImages, images)]_vars

\* An item has come in while a run is in progress: it is pending, outside the
\* snapshot, and the total is that of the snapshot.
C11_Witness ==
    \E run \in BagToSet(runs) :
        /\ run.i = 1
        /\ Len(run.pendingImages) = 1
        /\ Len(images) = 2
        /\ images[1].status = "analyzing"
        /\ PendingOutside(run, images) = {2}
        /\ progress = [current |-> 0, total |-> 1]

----------------------------------------------------------------------------
(* generateId without the assumption that the random suffixes never repeat *)

\* Date.now() does not run backwards: it is at least the time of the latest
\* id issued.
LatestClock(used) ==
    IF used = {} THEN 0
    ELSE CHOOSE t \in {id[1] : id \in used} :
            \A id \in used : id[1] <= t

\* What generateId() can return after the ids in `used`: the time of the call
\* and any random suffix, one returned before included.
PossibleIds(used) == {id \in generateId : id[1] >= LatestClock(used)}

\* A caller that issues one operation at a time, as in NextSolo, with the ids
\* that generateId can return.
NextAnyId ==
    \/ Quiescent /\ \E files \in FileLists :
          WithinBounds(files) /\ addImages(files)
    \/ \E a \in BagToSet(adds), ok \in BOOLEAN, id \in PossibleIds(issued) :
          PreviewSettled(a, ok, id)
    \/ Quiescent /\ \E imageId \in CallIds : removeImage(imageId)
    \/ Quiescent /\ clearAllImages
    \/ Quiescent /\ analyzeAllImages
    \/ \E run \in BagToSet(runs), response \in Responses :
          AnalyzeSettled(run, response)
    \/ Quiescent /\ \E imageId \in CallIds : reanalyzeImage(imageId)
    \/ \E re \in BagToSet(reanalyses), response \in Responses :
          ReanalyzeSettled(re, response)

SpecAnyId == Init /\ [][NextAnyId]_vars

\* C12: in every reachable state the tracked items have pairwise distinct
\* ids, and an id once given to an item is never given to an item submitted
\* later, also after the first item was removed or cleared.
C12_UniqueIds ==
    /\ [](\A n, m \in DOMAIN images : n # m => images[n].id # images[m].id)
    /\ [][\A a \in BagToSet(adds), id \in generateId :
            PreviewSettled(a, TRUE, id) => id \notin issued]_vars

\* C13: remove(id) deletes exactly the item with that id when it is tracked
\* and changes nothing when it is not; every other item keeps its id, status,
\* result and its place relative to the others.
C13_RemoveExactlyOne ==
    [][\A imageId \in generateId :
          removeImage(imageId) =>
              IF imageId \in Ids(images)
              THEN LET n == IndexOf(images, imageId) IN
                   /\ Len(images') = Len(images) - 1
                   /\ imageId \notin Ids(images')
                   /\ \A k \in 1 .. n - 1 : images'[k] = images[k]
                   /\ \A k \in n + 1 .. Len(images) : images'[k - 1] = images[k]
              ELSE UNCHANGED vars]_vars

\* The first of two analysed items has been removed: the second one is left,
\* as it was, with the progress of the run that analysed both.
C13_Witness ==
    /\ Quiescent
    /\ progress = [current |-> 2, total |-> 2]
    /\ Cardinality(issued) = 2
    /\ Len(images) = 1
    /\ images[1].status = "completed"
    /\ \A id \in issued : IdBefore(id, images[1].id) \/ id = images[1].id

\* C14: during a runBatch over a snapshot of N items the progress counter
\* starts at current=0, total=N; the step that ends each snapshot item, in
\* error as in completed, raises current by exactly one and leaves the total;
\* 0 <= current <= total at all times; current = total = N when the run ends.
C14_ProgressCounter ==
    /\ [](0 <= progress.current /\ progress.current <= progress.total)
    /\ [][analyzeAllImages /\ runs' # runs =>
            /\ progress'.current = 0
            /\ progress'.total = getStats(images).pending
            /\ \A run \in BagToSet(runs') :
                  Len(run.pendingImages) = progress'.total]_vars
    /\ [][\A run \in BagToSet(runs), response \in Responses :
            AnalyzeSettled(run, response) =>
                /\ progress.total = Len(run.pendingImages)
                /\ progress'.total = progress.total
                /\ progress'.current = progress.current + 1
                /\ (runs' = BagRemove(runs, run)) <=>
                      (progress'.current = progress'.total)]_vars

\* A run of two items has counted its first item, which failed.
C14_Witness ==
    \E run \in BagToSet(runs) :
        /\ run.i = 2
        /\ progress = [current |-> 1, total |-> 2]
        /\ run.pendingImages[1].id \in Ids(images)
        /\ Item(images, run.pendingImages[1].id).status = "error"

\* C15: the run-in-progress flag is false before runBatch is called, true at
\* every moment at which a batch walk still has a snapshot item in process or
\* left to process, and false again once the run has finished.
C15_FlagCoversRun ==
    /\ [](runs # EmptyBag => isAnalyzing)
    /\ [](runs = EmptyBag => ~isAnalyzing)

\* What can go wrong with the provider call, by kind: an error answer of the
\* server with its own text, a timeout, a network error, an error without any
\* text, a body with success=false, and no body at all (reading it throws).
ProviderFailures ==
    { [http |-> "error", serverError |-> "Invalid image file",
       message |-> "Request failed with status code 400"],
      [http |-> "error", serverError |-> "null", message |-> TimeoutMessage],
      [http |-> "error", serverError |-> "null", message |-> "Network Error"],
      [http |-> "error", serverError |-> "null", message |-> ""],
      [http |-> "ok", body |-> [isNull |-> FALSE, success |-> FALSE,
                                data |-> NoResult,
                                error |-> "Detection failed"]],
      [http |-> "ok", body |-> NullBody] }

\* The message of a failure.
FailureMessage(t) ==
    IF t.http = "ok"
    THEN (IF t.body.isNull THEN TypeErrorMessage ELSE t.body.error)
    ELSE IF t.serverError # "null" THEN t.serverError
    ELSE IF t.message # "" THEN t.message
    ELSE "Analysis failed"

ErrorWith(img, message) ==
    /\ img.status = "error"
    /\ img.result = [kind |-> "error", error |-> message]
    /\ message \notin {"", "null"}

\* C16: every kind of provider failure (an exception thrown, a response with
\* success=false, a timeout) is mapped to one transition, in runBatch and in
\* reanalyze alike: the item becomes error and its result carries the message
\* of the failure; no failure leaves the item in analyzing or in completed.
C16_FailuresUniform ==
    /\ [](\A t \in ProviderFailures \cup Transports :
            LET response == analyzeImage(t) IN
            Failed(response) =>
                /\ Settle(response).status = "error"
                /\ Settle(response).result
                      = [kind |-> "error", error |-> FailureMessage(t)]
                /\ FailureMessage(t) \notin {"", "null"})
    /\ [][\A run \in BagToSet(runs), t \in Transports :
            AnalyzeSettled(run, analyzeImage(t)) /\ Failed(analyzeImage(t))
            /\ run.pendingImages[run.i].id \in Ids(images) =>
                ErrorWith(Item(images', run.pendingImages[run.i].id),
                          FailureMessage(t))]_vars
    /\ [][\A re \in BagToSet(reanalyses), t \in Transports :
            ReanalyzeSettled(re, analyzeImage(t)) /\ Failed(analyzeImage(t))
            /\ re.imageId \in Ids(images) =>
                ErrorWith(Item(images', re.imageId), FailureMessage(t))]_vars

\* Two analysed items are in error, the first with the message of an exception
\* thrown, the second with that of a timeout.
C16_Witness ==
    /\ Quiescent
    /\ Len(images) = 2
    /\ progress = [current |-> 2, total |-> 2]
    /\ ErrorWith(images[1], TypeErrorMessage)
    /\ ErrorWith(images[2], TimeoutMessage)

States == {"pending", "analyzing", "completed", "error"}

InState(imgs, status) == {n \in DOMAIN imgs : imgs[n].status = status}

\* C17: for every state of the collection stats() returns total equal to the
\* number of tracked items, each per-state count equal to the number of items
\* in that state, so that pending + analyzing + completed + error = total, and
\* verdict counts that split the completed items exactly: fake + real =
\* completed.
C17_StatsConsistent ==
    LET stats == getStats(images) IN
    /\ stats.total = Len(images)
    /\ stats.pending = Cardinality(InState(images, "pending"))
    /\ stats.analyzing = Cardinality(InState(images, "analyzing"))
    /\ stats.completed = Cardinality(InState(images, "completed"))
    /\ stats.error = Cardinality(InState(images, "error"))
    /\ stats.pending + stats.analyzing + stats.completed + stats.error
          = stats.total
    /\ \A n \in DOMAIN images : images[n].status \in States
    /\ stats.fake + stats.real = stats.completed
    /\ stats.fake = Cardinality({n \in InState(images, "completed") :
                                    images[n].result.kind = "data"
                                    /\ images[n].result.isFake})
    /\ stats.real = Cardinality({n \in InState(images, "completed") :
                                    images[n].result.kind = "data"
                                    /\ ~images[n].result.isFake})

\* One item is completed with the verdict fake, the other is in error.
C17_Witness ==
    /\ Len(images) = 2
    /\ getStats(images) = [total |-> 2, pending |-> 0, analyzing |-> 0,
                           completed |-> 1, error |-> 1, fake |-> 1,
                           real |-> 0]

----------------------------------------------------------------------------
(* The scenario: three valid files and one oversized file, then a batch run *)
(* in which the provider fails for the second item                          *)

ScenarioValid ==
    { [name |-> "a.png", type |-> "IMAGE/PNG", size |-> MAX_FILE_SIZE],
      [name |-> "d.jpg", type |-> "image/jpg", size |-> 1] }

Oversized == [name |-> "c.jpg", type |-> "image/jpeg",
              size |-> MAX_FILE_SIZE + 1]

\* Four files, one of them the oversized one, at any place.
ScenarioFileLists ==
    {files \in [1 .. 4 -> ScenarioValid \cup {Oversized}] :
        Cardinality({k \in 1 .. 4 : files[k] = Oversized}) = 1}

\* The provider of the scenario: it fails for the second item of a run, in
\* one way or another, and succeeds for the others, with one verdict or the
\* other.
ScenarioResponses(i) ==
    IF i = 2 THEN {response \in Responses : Failed(response)}
    ELSE {response \in Responses : ~Failed(response)}

NextScenario ==
    \/ /\ images = <<>> /\ issued = {} /\ Quiescent
       /\ \E files \in ScenarioFileLists : addImages(files)
    \/ \E a \in BagToSet(adds), id \in FreshIds(issued) :
          PreviewSettled(a, TRUE, id)
    \/ Quiescent /\ getStats(images).pending > 0 /\ analyzeAllImages
    \/ \E run \in BagToSet(runs) :
          \E response \in ScenarioResponses(run.i) :
              AnalyzeSettled(run, response)

SpecScenario == Init /\ [][NextScenario]_vars

\* C18: submitting 3 valid items and 1 oversized item to an empty
\* orchestrator returns added=3 and exactly one rejection, of the oversized
\* item, for its size, and stats().total = 3; a following runBatch with a
\* provider that fails for item 2 and succeeds for items 1 and 3 ends with
\* the states completed, error, completed in submission order and stats()
\* showing completed=2, error=1.
C18_Scenario ==
    /\ [][\A a \in BagToSet(adds), id \in generateId :
            AddReturnsAfterPreview(a, TRUE, id) =>
                LET results == ReturnedAfterPreview(a, TRUE, id) IN
                /\ results.added = 3
                /\ results.rejected = <<[file |-> Oversized.name,
                                         reason |-> FileTooLargeError]>>
                /\ getStats(images').total = 3
                /\ getStats(images').pending = 3
                /\ [n \in 1 .. 3 |-> images'[n].file]
                      = SelectSeq(a.fileArray, LAMBDA file : file # Oversized)
           ]_vars
    /\ [](Len(images) > 0 /\ runs = EmptyBag /\ progress.total > 0 =>
            /\ [n \in 1 .. 3 |-> images[n].status]
                  = <<"completed", "error", "completed">>
            /\ getStats(images).completed = 2
            /\ getStats(images).error = 1
            /\ getStats(images).total = 3
            /\ progress = [current |-> 3, total |-> 3]
            /\ ~isAnalyzing)

\* The run of the scenario has ended.
C18_Witness ==
    /\ runs = EmptyBag
    /\ adds = EmptyBag
    /\ ~isAnalyzing
    /\ progress = [current |-> 3, total |-> 3]
    /\ Len(images) = 3
    /\ images[1].status = "completed"
    /\ images[2].status = "error"
    /\ images[3].status = "completed"

----------------------------------------------------------------------------
(* validateFile on its own                                                 *)

\* Payloads by format tag and byte size, around the size limit and on both
\* sides of the format list, each under two names.
PayloadTypes ==
    {"image/jpeg", "image/jpg", "image/png", "IMAGE/PNG",
     "Image/Gif", "application/pdf"}

PayloadSizes ==
    {0, MAX_FILE_SIZE - 1, MAX_FILE_SIZE, MAX_FILE_SIZE + 1}

Payloads ==
    [name : {"p", "q"}, type : PayloadTypes, size : PayloadSizes]

\* A caller that submits one payload at a time, to an empty collection.
NextValidate ==
    \/ Quiescent /\ images = <<>> /\ \E file \in Payloads :
          WithinBounds(<<file>>) /\ addImages(<<file>>)
    \/ \E a \in BagToSet(adds), ok \in BOOLEAN, id \in FreshIds(issued) :
          PreviewSettled(a, ok, id)
    \/ Quiescent /\ images # <<>> /\ clearAllImages

SpecValidate == Init /\ [][NextValidate]_vars

\* The policy in the terms of the claim: the format tag (MIME types are
\* compared without regard to case) is in the allowed set; the size is at
\* most maxBytes.
FormatAllowed(file) ==
    toLowerCase(file.type) \in {"image/jpeg", "image/jpg", "image/png"}

SizeFits(file) == file.size <= 10485760

\* C19: validate is a deterministic, side-effect-free function of the format
\* tag and the byte size of the payload: it accepts exactly when the format
\* is allowed and size <= maxBytes (a payload of exactly maxBytes is
\* accepted); otherwise it gives exactly one reason: the format, when the
\* format is not allowed (also when the payload is too large as well); the
\* size, only when the format is allowed and size > maxBytes.
C19_ValidateDecides ==
    /\ [](\A file \in Payloads :
            LET validation == validateFile(file) IN
            /\ validation.valid <=> (FormatAllowed(file) /\ SizeFits(file))
            /\ validation.valid => validation.error = "null"
            /\ ~FormatAllowed(file) => validation.error = InvalidFormatError
            /\ FormatAllowed(file) /\ ~SizeFits(file) =>
                  validation.error = FileTooLargeError
            /\ \A other \in Payloads :
                  other.type = file.type /\ other.size = file.size =>
                      validateFile(other) = validation)
    /\ [][\A file \in Payloads :
            addImages(<<file>>) =>
                /\ validateFile(file).valid =>
                      /\ UNCHANGED <<images, isAnalyzing, progress, runs,
                                     reanalyses, issued>>
                      /\ \E a \in BagToSet(adds') :
                            /\ adds' = BagAdd(adds, a)
                            /\ a.fileArray = <<file>>
                            /\ a.results.rejected = <<>>
                /\ ~validateFile(file).valid => UNCHANGED vars]_vars

\* A payload of exactly the maximum size has been accepted and tracked.
C19_Witness ==
    /\ Len(images) = 1
    /\ images[1].file.size = MAX_FILE_SIZE
    /\ images[1].file.type = "image/jpg"
    /\ images[1].status = "pending"

----------------------------------------------------------------------------
(* The rejection entries of addImages                                      *)

RejectionReasons(results) ==
    {results.rejected[j].reason : j \in DOMAIN results.rejected}

\* Every entry is for a file of the call, with the reason that goes with the
\* file: a validation reason for a file that fails the policy, the preview
\* reason for a file that passes it.
ReasonsFit(fileArray, results) ==
    \A j \in DOMAIN results.rejected :
        LET entry == results.rejected[j] IN
        \E k \in DOMAIN fileArray :
            /\ fileArray[k].name = entry.file
            /\ IF FailsPolicy(fileArray[k])
               THEN entry.reason = validateFile(fileArray[k]).error
                    /\ entry.reason \in ValidationReasons
               ELSE entry.reason = PreviewError

\* C20 (amended): every rejection entry that submit returns carries one of
\* the two validation reasons, for an item that failed validation, or the
\* reason "Failed to create preview", for an item that passed validation and
\* whose preview could not be built; submit reports no other reason.
C20_RejectionReasons ==
    /\ [](\A a \in BagToSet(adds) : ReasonsFit(a.fileArray, a.results))
    /\ [][\A files \in FileLists :
            AddReturnsSync(files) =>
                ReasonsFit(files, ReturnedSync(files))]_vars
    /\ [][\A a \in BagToSet(adds), ok \in BOOLEAN, id \in generateId :
            AddReturnsAfterPreview(a, ok, id) =>
                ReasonsFit(a.fileArray, ReturnedAfterPreview(a, ok, id))]_vars

\* C20 (as stated): every rejection entry that submit returns carries one of
\* the two validation reasons; submit reports no other rejection reason.
C20_Original ==
    /\ [](\A a \in BagToSet(adds) :
            RejectionReasons(a.results) \subseteq ValidationReasons)
    /\ [][\A files \in FileLists :
            AddReturnsSync(files) =>
                RejectionReasons(ReturnedSync(files))
                    \subseteq ValidationReasons]_vars
    /\ [][\A a \in BagToSet(adds), ok \in BOOLEAN, id \in generateId :
            AddReturnsAfterPreview(a, ok, id) =>
                RejectionReasons(ReturnedAfterPreview(a, ok, id))
                    \subseteq ValidationReasons]_vars

\* An addImages call has rejected its first file, a valid one, because the
\* preview could not be built, and awaits the preview of its second file.
C20_Witness ==
    \E a \in BagToSet(adds) :
        /\ a.k = 2
        /\ ~FailsPolicy(a.fileArray[1])
        /\ a.results.rejected = <<[file |-> a.fileArray[1].name,
                                   reason |-> PreviewError]>>
        /\ a.newImages = <<>>

----------------------------------------------------------------------------
(* The collection as a list of items                                       *)

IdsSeq(imgs) == [n \in DOMAIN imgs |-> imgs[n].id]

\* A step that keeps every tracked item, with its id, at its place: what it
\* adds, it adds at the end.
KeepsItems ==
    /\ Len(images') >= Len(images)
    /\ SubSeq(IdsSeq(images'), 1, Len(images)) = IdsSeq(images)

\* The steps of submit, of runBatch and of reanalyze.
SubmitStep ==
    \/ \E files \in FileLists : addImages(files)
    \/ \E a \in BagToSet(adds), ok \in BOOLEAN, id \in generateId :
          PreviewSettled(a, ok, id)

ReanalyzeStep ==
    \/ \E imageId \in generateId : reanalyzeImage(imageId)
    \/ \E re \in BagToSet(reanalyses), response \in Responses :
          ReanalyzeSettled(re, response)

\* C21: a tracked item leaves the collection only through remove(id) of its
\* own id or through clear(): no step of submit, runBatch or reanalyze removes
\* an item, changes the id of an item or the order of the items (stats() is a
\* read), and a step after which an item is gone or displaced is a
\* remove of that id, which keeps all the others in order, or a clear.
C21_OnlyRemoveAndClear ==
    /\ [][SubmitStep \/ BatchStep \/ ReanalyzeStep => KeepsItems]_vars
    /\ [][~KeepsItems =>
            \/ clearAllImages
            \/ \E imageId \in Ids(images) :
                  /\ removeImage(imageId)
                  /\ IdsSeq(images')
                        = SelectSeq(IdsSeq(images),
                                    LAMBDA id : id # imageId)]_vars

\* Both items of a finished batch are still there, in submission order, the
\* second one under a reanalyze that is in flight.
C21_Witness ==
    /\ Len(images) = 2
    /\ runs = EmptyBag
    /\ progress = [current |-> 2, total |-> 2]
    /\ IdBefore(images[1].id, images[2].id)
    /\ Terminal(images[1])
    /\ images[2].status = "analyzing"
    /\ \E re \in BagToSet(reanalyses) : re.imageId = images[2].id

----------------------------------------------------------------------------
(* Progress of a batch run                                                 *)

\* Every provider call settles: axios gives up after the timeout of apiClient
\* and analyzeImage then resolves with a failure, so the call a run awaits
\* does not stay open for ever.
ProviderSettles ==
    \E run \in BagToSet(runs), response \in Responses :
        AnalyzeSettled(run, response)

SpecUILive == SpecUI /\ WF_vars(ProviderSettles)

TimedOut(response) == ~response.isNull /\ response.error = TimeoutMessage

\* C22: a provider call that times out is taken as a failure, the item goes
\* to error, and the walk is not blocked by it; with every provider call
\* settling one way or another, a run that was started processes all the
\* items of its snapshot and ends with the run-in-progress flag false.
C22_TimeoutDoesNotBlock ==
    /\ [][\A run \in BagToSet(runs), response \in Responses :
            AnalyzeSettled(run, response) /\ TimedOut(response) =>
                /\ run.pendingImages[run.i].id \in Ids(images) =>
                      ErrorWith(Item(images', run.pendingImages[run.i].id),
                                TimeoutMessage)
                /\ run.i < Len(run.pendingImages) =>
                      BagIn([run EXCEPT !.i = run.i + 1], runs')]_vars
    /\ (runs # EmptyBag) ~> (/\ runs = EmptyBag
                             /\ ~isAnalyzing
                             /\ progress.current = progress.total)

\* A run of two items has ended after the call for its first item timed out.
C22_Witness ==
    /\ runs = EmptyBag
    /\ reanalyses = EmptyBag
    /\ ~isAnalyzing
    /\ progress = [current |-> 2, total |-> 2]
    /\ Len(images) = 2
    /\ ErrorWith(images[1], TimeoutMessage)
    /\ images[2].status = "completed"

----------------------------------------------------------------------------
(* Writes to different items                                               *)

\* A step that writes to the items with the given ids leaves every other item
\* exactly as the step found it, whoever wrote to it last.
OthersUntouched(ids) ==
    /\ Len(images') = Len(images)
    /\ \A n \in DOMAIN images :
          images[n].id \notin ids => images'[n] = images[n]

\* The items a step of a run writes to: the one whose call has settled and the
\* one the walk goes on to.
WrittenBy(run) ==
    {run.pendingImages[p].id :
        p \in {run.i, run.i + 1} \cap DOMAIN run.pendingImages}

\* C23: mutations of different items never conflict: every write of a status
\* or a result that a step of runBatch or of reanalyze makes for an item
\* leaves the status and the result of every other item as they are, so that
\* under any interleaving no write to another item is lost or overwritten.
C23_NoCrossItemConflict ==
    /\ [][analyzeAllImages /\ runs' # runs =>
            \E run \in BagToSet(runs') :
                /\ runs' = BagAdd(runs, run)
                /\ OthersUntouched({run.pendingImages[1].id})]_vars
    /\ [][\A run \in BagToSet(runs), response \in Responses :
            AnalyzeSettled(run, response) =>
                OthersUntouched(WrittenBy(run))]_vars
    /\ [][\A imageId \in generateId :
            reanalyzeImage(imageId) => OthersUntouched({imageId})]_vars
    /\ [][\A re \in BagToSet(reanalyses), response \in Responses :
            ReanalyzeSettled(re, response) =>
                OthersUntouched({re.imageId})]_vars

\* A run is at its second item while a reanalyze of its first item is in
\* flight: both calls are open, each on its own item.
C23_Witness ==
    \E run \in BagToSet(runs), re \in BagToSet(reanalyses) :
        /\ run.i = 2
        /\ re.imageId = run.pendingImages[1].id
        /\ Len(images) = 2
        /\ images[1].id = re.imageId
        /\ images[1].status = "analyzing"
        /\ ~HasResult(images[1])
        /\ images[2].id = run.pendingImages[2].id
        /\ images[2].status = "analyzing"

----------------------------------------------------------------------------
(* Overlapping addImages calls                                             *)

\* A caller that may call addImages again while a call awaits a preview: one
\* call more in flight than the other specifications follow.
NextSubmit ==
    \/ \E files \in FileLists :
          /\ BagCardinality(adds) < MaxAdds + 1
          /\ Len(images) + Reserved(adds) + CountValid(files) <= MaxImages
          /\ addImages(files)
    \/ \E a \in BagToSet(adds), ok \in BOOLEAN, id \in FreshIds(issued) :
          PreviewSettled(a, ok, id)
    \/ \E imageId \in CallIds : removeImage(imageId)
    \/ clearAllImages
    \/ analyzeAllImages
    \/ \E run \in BagToSet(runs), response \in Responses :
          AnalyzeSettled(run, response)
    \/ \E imageId \in CallIds : reanalyzeImage(imageId)
    \/ \E re \in BagToSet(reanalyses), response \in Responses :
          ReanalyzeSettled(re, response)

SpecSubmit == Init /\ [][NextSubmit]_vars

\* The ids of the items a suspended addImages call has prepared so far.
PreparedIds(a) == {a.newImages[j].id : j \in DOMAIN a.newImages}

\* What a returning addImages call has to have done with the items it
\* accepted: they are appended, all of them and once each, after the items
\* already tracked, in the order of the raw input, pending and without a
\* result; the items already tracked are as they were.
AppendsAccepted(fileArray, accepted, results) ==
    LET appended == SubSeq(images', Len(images) + 1, Len(images')) IN
    /\ Len(images') = Len(images) + Len(accepted)
    /\ SubSeq(images', 1, Len(images)) = images
    /\ appended = accepted
    /\ Len(appended) = results.added
    /\ \A j \in DOMAIN appended :
          /\ appended[j].status = "pending"
          /\ appended[j].result = NoResult
          /\ appended[j].id \notin Ids(images)
          /\ \A i \in DOMAIN appended :
                i # j => appended[i].id # appended[j].id
    /\ IsSubSeq([j \in DOMAIN appended |-> appended[j].file], fileArray)

\* C24: submit appends each accepted item at the end of the collection, after
\* all items already tracked and in the order of the raw input, pending and
\* without a result; the items already tracked keep their place, status and
\* result; and when two submit calls overlap, no accepted item of either call
\* is lost or duplicated: a call that returns appends its own items and
\* leaves the other call, with the items it has prepared, as it is.
C24_SubmitAppends ==
    /\ [][\A files \in FileLists :
            AddReturnsSync(files) =>
                AppendsAccepted(files, <<>>, ReturnedSync(files))]_vars
    /\ [][\A a \in BagToSet(adds), ok \in BOOLEAN, id \in generateId :
            AddReturnsAfterPreview(a, ok, id) =>
                AppendsAccepted(a.fileArray,
                                PreviewResult(a, ok, id).newImages,
                                ReturnedAfterPreview(a, ok, id))]_vars
    /\ [][\A a \in BagToSet(adds), ok \in BOOLEAN, id \in generateId :
            PreviewSettled(a, ok, id) /\ adds' # BagRemove(adds, a) =>
                /\ images' = images
                /\ \E b \in BagToSet(adds') :
                      /\ adds' = BagAdd(BagRemove(adds, a), b)
                      /\ b.newImages = PreviewResult(a, ok, id).newImages]_vars
    /\ [](\A a \in BagToSet(adds) :
            /\ PreparedIds(a) \cap Ids(images) = {}
            /\ Cardinality(PreparedIds(a)) = Len(a.newImages)
            /\ a.newImages # <<>> => CopiesIn(a, adds) = 1
            /\ \A b \in BagToSet(adds) :
                  a # b => PreparedIds(a) \cap PreparedIds(b) = {})

\* Two addImages calls overlap: both await the preview of a file.
C24_Witness ==
    /\ BagCardinality(adds) = 2
    /\ \A a \in BagToSet(adds) : a.k = 1 /\ Len(a.fileArray) = 1

\* The provider calls started by batch walks that are outstanding: every run
\* in progress is suspended at the one call it awaits.
OutstandingBatchCalls == BagCardinality(runs)

\* C25: batch processing caps the load on the provider at one outstanding
\* request: at no time are two provider calls started by batch walks
\* outstanding together, also when runBatch is called again while an earlier
\* run is in progress.
C25_OneOutstandingBatchCall == OutstandingBatchCalls <= 1

----------------------------------------------------------------------------
(* Every analysis ends                                                     *)

\* The provider call that a run, or a reanalyzeImage call, awaits for the
\* item with the given id settles.
BatchCallSettles(id) ==
    \E run \in BagToSet(runs), response \in Responses :
        /\ run.pendingImages[run.i].id = id
        /\ AnalyzeSettled(run, response)

ReanalyzeCallSettles(id) ==
    \E re \in BagToSet(reanalyses), response \in Responses :
        /\ re.imageId = id
        /\ ReanalyzeSettled(re, response)

\* Any caller of the hook, with a provider whose every call resolves.
SpecLive ==
    /\ Spec
    /\ \A id \in generateId :
          WF_vars(BatchCallSettles(id)) /\ WF_vars(ReanalyzeCallSettles(id))

IsAnalyzing(id) ==
    id \in Ids(images) /\ Item(images, id).status = "analyzing"

\* C26: no item stays in analyzing for ever: with every provider call
\* resolving, an item that was set to analyzing, by runBatch or by reanalyze,
\* and is not removed comes to completed or error; an item in analyzing
\* always has an operation in flight on it, so that once all started
\* operations have finished no tracked item is in analyzing.
C26_NoItemStuck ==
    /\ [](\A n \in DOMAIN images :
            images[n].status = "analyzing" => InFlightOn(images[n].id) >= 1)
    /\ [](runs = EmptyBag /\ reanalyses = EmptyBag =>
            getStats(images).analyzing = 0)
    /\ \A id \in generateId :
          IsAnalyzing(id) ~>
              (id \notin Ids(images) \/ Terminal(Item(images, id)))

\* All operations have finished; the first item rests in error, the second
\* one was analysed again and is completed.
C26_Witness ==
    /\ Quiescent
    /\ ~isAnalyzing
    /\ Len(images) = 2
    /\ progress = [current |-> 1, total |-> 1]
    /\ images[1].status = "error"
    /\ images[2].status = "completed"

----------------------------------------------------------------------------
(* reanalyzeImage called in the tick of a removal                          *)

\* removeImage(imageId) or clearAllImages(), and reanalyzeImage(imageId) right
\* after it, before React has rendered again. reanalyzeImage is the callback
\* of the last render (useCallback(..., [images])): its images.find reads the
\* images of that render, in which the item still is, while its
\* setImages(prev => ...) is applied to what the removal has left.
RemoveThenReanalyze(imageId) ==
    LET closure == images
        prev == Filter(images, imageId)
    IN
    /\ imageId \in Ids(closure)
    /\ BagCardinality(reanalyses) < MaxReanalyze
    /\ images' = ResetAnalyzing(prev, imageId)
    /\ reanalyses' = BagAdd(reanalyses,
                            [imageId |-> imageId,
                             file |-> Item(closure, imageId).file])
    /\ UNCHANGED <<isAnalyzing, progress, adds, runs, issued, batch>>

ClearThenReanalyze(imageId) ==
    LET closure == images
        prev == <<>>
    IN
    /\ imageId \in Ids(closure)
    /\ BagCardinality(reanalyses) < MaxReanalyze
    /\ images' = ResetAnalyzing(prev, imageId)
    /\ progress' = [current |-> 0, total |-> 0]
    /\ reanalyses' = BagAdd(reanalyses,
                            [imageId |-> imageId,
                             file |-> Item(closure, imageId).file])
    /\ UNCHANGED <<isAnalyzing, adds, runs, issued, batch>>

\* A sequential caller that may also call reanalyzeImage in the tick of a
\* removal.
NextSameTick ==
    \/ NextSolo
    \/ Quiescent /\ \E imageId \in Ids(images) : RemoveThenReanalyze(imageId)
    \/ Quiescent /\ \E imageId \in Ids(images) : ClearThenReanalyze(imageId)

SpecSameTick == Init /\ [][NextSameTick]_vars

\* C27: reanalyze(id) called with an id that is not in the tracked collection
\* is a no-op: no item changes and no provider call is started, also when the
\* item with that id was removed or cleared just before the call (the step
\* then does what the removal alone does).
C27_AbsentIdIsNoOp ==
    [][/\ \A imageId \in generateId \ Ids(images) :
             reanalyzeImage(imageId) => UNCHANGED vars
       /\ \A imageId \in Ids(images) :
             RemoveThenReanalyze(imageId) =>
                 /\ images' = Filter(images, imageId)
                 /\ reanalyses' = reanalyses
       /\ \A imageId \in Ids(images) :
             ClearThenReanalyze(imageId) =>
                 /\ images' = <<>>
                 /\ reanalyses' = reanalyses]_vars

----------------------------------------------------------------------------
(* A call that settles after its item was removed                          *)

\* The call of a run, or of reanalyzeImage, settles for an item that is no
\* longer tracked.
SettlesRemoved(run, response) ==
    /\ run.pendingImages[run.i].id \notin Ids(images)
    /\ AnalyzeSettled(run, response)

ReanalyzeSettlesRemoved(re, response) ==
    /\ re.imageId \notin Ids(images)
    /\ ReanalyzeSettled(re, response)

\* C28: an item removed, by remove or by clear, while its analysis call is in
\* flight is never resurrected: when the call settles the collection still
\* does not contain the id and no other item receives its result or its
\* state (of a run, the step changes only the next item of the snapshot,
\* which it sets to analyzing), and the run goes on with the rest of its
\* snapshot.
C28_RemovedStaysRemoved ==
    [][/\ \A run \in BagToSet(runs), response \in Responses :
             SettlesRemoved(run, response) =>
                 LET id == run.pendingImages[run.i].id
                     more == run.i < Len(run.pendingImages)
                     next == run.pendingImages[run.i + 1].id
                 IN
                 /\ id \notin Ids(images')
                 /\ IdsSeq(images') = IdsSeq(images)
                 /\ \A n \in DOMAIN images :
                       IF more /\ images[n].id = next
                       THEN images'[n] =
                                [images[n] EXCEPT !.status = "analyzing"]
                       ELSE images'[n] = images[n]
                 /\ more => BagIn([run EXCEPT !.i = @ + 1], runs')
                 /\ ~more => BagCardinality(runs') = BagCardinality(runs) - 1
       /\ \A re \in BagToSet(reanalyses), response \in Responses :
             ReanalyzeSettlesRemoved(re, response) =>
                 /\ images' = images
                 /\ reanalyses' = BagRemove(reanalyses, re)]_vars

\* A run has gone on to the second item of its snapshot after the call for
\* the first one, whose item is no longer tracked, has settled.
C28_Witness ==
    \E run \in BagToSet(runs) :
        /\ run.i = 2
        /\ run.pendingImages[1].id \notin Ids(images)
        /\ Len(images) = 1
        /\ images[1].id = run.pendingImages[2].id
        /\ images[1].status = "analyzing"
        /\ progress = [current |-> 1, total |-> 2]

----------------------------------------------------------------------------
(* analyzeAllImages with nothing to analyse                                *)

NothingPending == PendingImages(images) = <<>>

\* C29: runBatch called when no item is pending is a no-op: it starts no
\* provider call, changes no item, leaves the progress counter as it was and
\* does not set the run-in-progress flag.
C29_NothingPendingIsNoOp ==
    [][NothingPending /\ analyzeAllImages =>
           /\ runs' = runs
           /\ images' = images
           /\ progress' = progress
           /\ isAnalyzing' = isAnalyzing]_vars

\* Two items, both analysed by a run that has ended: a further runBatch finds
\* nothing pending, and the counter of the ended run stands.
C29_Witness ==
    /\ Quiescent
    /\ Len(images) = 2
    /\ NothingPending
    /\ ~isAnalyzing
    /\ progress = [current |-> 2, total |-> 2]
    /\ ENABLED analyzeAllImages

----------------------------------------------------------------------------
(* The account addImages gives of its input                                *)

\* What a returning addImages call has to report of its fileArray: every raw
\* item is counted once, as added or as rejected, and added is the number of
\* items the call appends to the collection.
AccountsFor(fileArray, results) ==
    /\ results.added + Len(results.rejected) = Len(fileArray)
    /\ results.added = Len(images') - Len(images)
    /\ SubSeq(images', 1, Len(images)) = images

\* C30: submit accounts for every raw item exactly once: for every input
\* list, acceptedCount + the number of rejection entries = the number of raw
\* items, and acceptedCount is the number of TrackedItems the call appends to
\* the collection; a call that awaits a preview has accounted for the items
\* before the one it is at.
C30_SubmitAccounts ==
    /\ [][\A files \in FileLists :
            AddReturnsSync(files) =>
                AccountsFor(files, ReturnedSync(files))]_vars
    /\ [][\A a \in BagToSet(adds), ok \in BOOLEAN, id \in generateId :
            AddReturnsAfterPreview(a, ok, id) =>
                AccountsFor(a.fileArray, ReturnedAfterPreview(a, ok, id))]_vars
    /\ [](\A a \in BagToSet(adds) :
            /\ a.results.added + Len(a.results.rejected) = a.k - 1
            /\ a.results.added = Len(a.newImages))

\* A call with two raw items has accepted the first one and awaits the
\* preview of the second: it returns added = 2, or added = 1 with one
\* rejection.
C30_Witness ==
    \E a \in BagToSet(adds) :
        /\ Len(a.fileArray) = 2
        /\ a.k = 2
        /\ a.results = [added |-> 1, rejected |-> <<>>]
        /\ Len(a.newImages) = 1

----------------------------------------------------------------------------
(* The controls while a run is in progress                                 *)

\* C31: while isAnalyzing is true the controls are disabled: Analyze All,
\* Clear All and the upload zone accept no action, so that through the UI no
\* second run, no clear and no submit starts while a batch run is in
\* progress; Analyze All is also disabled whenever no item is pending.
C31_ControlsDisabled ==
    /\ [](isAnalyzing =>
            /\ ~ENABLED onAnalyze
            /\ ~ENABLED handleClearAll
            /\ \A files \in FileLists : ~ENABLED handleFilesAdded(files))
    /\ [](NothingPending => ~ENABLED onAnalyze)
    /\ [](runs # EmptyBag => isAnalyzing /\ BagCardinality(runs) = 1)
    /\ [][runs # EmptyBag =>
            /\ BagCardinality(runs') <= 1
            /\ BagCardinality(adds') <= BagCardinality(adds)
            /\ ~clearAllImages]_vars

\* A run is at the first of two items, the second one is pending: Analyze
\* All, Clear All and the upload zone are disabled.
C31_Witness ==
    /\ isAnalyzing
    /\ \E run \in BagToSet(runs) : run.i = 1 /\ Len(run.pendingImages) = 2
    /\ Len(images) = 2
    /\ images[1].status = "analyzing"
    /\ images[2].status = "pending"

----------------------------------------------------------------------------
(* Analysis calls started through the UI                                   *)

\* reanalyzeImage starts a call for the tracked item with the given id.
ReanalyzeStarts(imageId) ==
    /\ imageId \in Ids(images)
    /\ reanalyzeImage(imageId)

\* C32: when the operations are issued only through the UI (Re-analyze is
\* offered only for items rendered as completed or error, Analyze All is
\* disabled during a run, the view is rendered again after each change of
\* state), no item is ever the target of two analysis calls in flight, and
\* reanalyze is never started on a pending or analyzing item.
C32_OneCallPerItemInUI ==
    /\ [](\A id \in generateId : InFlightOn(id) \in {0, 1})
    /\ [][\A imageId \in generateId :
            ReanalyzeStarts(imageId) =>
                /\ Terminal(Item(images, imageId))
                /\ InFlightOn(imageId) = 0]_vars

\* A run and a reanalyze are in flight together, each on its own item.
C32_Witness ==
    /\ Len(images) = 2
    /\ images[1].status = "analyzing"
    /\ images[2].status = "analyzing"
    /\ \E run \in BagToSet(runs), re \in BagToSet(reanalyses) :
          /\ InFlightOn(re.imageId) = 1
          /\ InFlightOn(run.pendingImages[run.i].id) = 1
          /\ re.imageId # run.pendingImages[run.i].id

----------------------------------------------------------------------------
(* analyzeImage, real mode                                                 *)

ServerTexts == {"null", "", "Invalid image file"}

ExceptionMessages == {"null", "", "Network Error", TimeoutMessage}

\* What apiClient.post can come to: a body (a success response, a response
\* with success=false, no body), or an error with or without the server's
\* error text, with or without a message.
AxiosOutcomes ==
    {[http |-> "ok", body |-> SuccessBody(b)] : b \in BOOLEAN}
    \cup {[http |-> "ok", body |-> NullBody],
          [http |-> "ok", body |-> [isNull |-> FALSE, success |-> FALSE,
                                    data |-> NoResult,
                                    error |-> "Detection failed"]]}
    \cup {[http |-> "error", serverError |-> text, message |-> message] :
             text \in ServerTexts, message \in ExceptionMessages}

\* A sequential caller of the hook, with a provider that answers in any of
\* these ways.
NextProvider ==
    \/ Quiescent /\ \E files \in FileLists :
          WithinBounds(files) /\ addImages(files)
    \/ \E a \in BagToSet(adds), id \in FreshIds(issued) :
          PreviewSettled(a, TRUE, id)
    \/ Quiescent /\ clearAllImages
    \/ Quiescent /\ analyzeAllImages
    \/ \E run \in BagToSet(runs), t \in AxiosOutcomes :
          AnalyzeSettled(run, analyzeImage(t))
    \/ Quiescent /\ \E imageId \in Ids(images) : reanalyzeImage(imageId)
    \/ \E re \in BagToSet(reanalyses), t \in AxiosOutcomes :
          ReanalyzeSettled(re, analyzeImage(t))

SpecProvider == Init /\ [][NextProvider]_vars

HasText(text) == text # "null" /\ text # ""

\* The error message of a failed call: the server's error text, else the
\* message of the exception, else 'Analysis failed'.
MessageOf(t) ==
    IF HasText(t.serverError) THEN t.serverError
    ELSE IF HasText(t.message) THEN t.message
    ELSE "Analysis failed"

\* C33: analyzeImage in real mode never rejects: for every transport or
\* server failure it resolves to a response with success=false, data=null and
\* a non-empty error message (the server's error text, else the message of
\* the exception, else 'Analysis failed'), which the hook writes to the item;
\* it returns a response with success=true only when the HTTP call succeeded.
C33_AnalyzeImageResolves ==
    /\ [](\A t \in AxiosOutcomes :
            LET response == analyzeImage(t) IN
            /\ t.http = "error" =>
                  /\ response = [isNull |-> FALSE, success |-> FALSE,
                                 data |-> NoResult, error |-> MessageOf(t)]
                  /\ HasText(response.error)
            /\ (~response.isNull /\ response.success) => t.http = "ok")
    /\ [][\A run \in BagToSet(runs), t \in AxiosOutcomes :
            /\ AnalyzeSettled(run, analyzeImage(t))
            /\ t.http = "error"
            /\ run.pendingImages[run.i].id \in Ids(images)
            => ErrorWith(Item(images', run.pendingImages[run.i].id),
                         MessageOf(t))]_vars
    /\ [][\A re \in BagToSet(reanalyses), t \in AxiosOutcomes :
            /\ ReanalyzeSettled(re, analyzeImage(t))
            /\ t.http = "error"
            /\ re.imageId \in Ids(images)
            => ErrorWith(Item(images', re.imageId), MessageOf(t))]_vars

\* Two calls have failed: the first item carries the server's error text, the
\* second one the fallback text of a failure without any message.
C33_Witness ==
    /\ Quiescent
    /\ Len(images) = 2
    /\ ErrorWith(images[1], "Invalid image file")
    /\ ErrorWith(images[2], "Analysis failed")

----------------------------------------------------------------------------
(* services/api.js: batchAnalyzeImages                                     *)

\* (a result put in front of the earlier ones)
PushResult_Unshift(results, result) == <<result>> \o results

\* results.push(result)
PushResult(results, result) == Append(results, result)

\* From the call to the first await analyzeImage(files[i]), or to the return
\* when there is no file; reports says whether an onProgress was passed. asked
\* lists the files analyzeImage has been called with, calls the arguments
\* onProgress has been called with; i is the iteration, counted from 1.
batchAnalyzeImages(files, reports) ==
    /\ batch.status # "running"
    /\ batch' = IF Len(files) = 0
                THEN [NoBatch EXCEPT !.status = "returned",
                                     !.reports = reports]
                ELSE [status |-> "running", files |-> files,
                      reports |-> reports, i |-> 1, asked |-> <<files[1]>>,
                      results |-> <<>>, calls |-> <<>>]
    /\ UNCHANGED <<images, isAnalyzing, progress, adds, runs, reanalyses,
                   issued>>

\* The call awaited in iteration batch.i settles: the push and onProgress,
\* then the next iteration up to its await, or the return.
BatchAnalyzeSettled(transport) ==
    /\ batch.status = "running"
    /\ LET result == analyzeImage(transport)
           results == PushResult(batch.results, result)
           calls == IF batch.reports
                    THEN Append(batch.calls,
                                <<batch.i, Len(batch.files), result>>)
                    ELSE batch.calls
       IN
       batch' = IF batch.i < Len(batch.files)
                THEN [batch EXCEPT !.i = @ + 1,
                                   !.asked = Append(@, batch.files[batch.i + 1]),
                                   !.results = results,
                                   !.calls = calls]
                ELSE [batch EXCEPT !.status = "returned",
                                   !.results = results,
                                   !.calls = calls]
    /\ UNCHANGED <<images, isAnalyzing, progress, adds, runs, reanalyses,
                   issued>>

\* A caller of batchAnalyzeImages.
NextBatch ==
    \/ \E files \in FileLists, reports \in BOOLEAN :
          batchAnalyzeImages(files, reports)
    \/ \E t \in AxiosOutcomes : BatchAnalyzeSettled(t)

SpecBatch == Init /\ [][NextBatch]_vars

\* C34: batchAnalyzeImages(files, onProgress) analyses the files one at a
\* time in input order and returns a list of the same length in which
\* results[i] is the response for files[i], the failed analyses included as
\* responses, without ending the loop; onProgress is called once after each
\* file with (i+1, files.length, result), the first argument going from 1 to
\* files.length.
C34_BatchAnalyzeInOrder ==
    /\ [](batch.status = "running" =>
            /\ batch.i \in 1 .. Len(batch.files)
            /\ batch.asked = SubSeq(batch.files, 1, batch.i)
            /\ Len(batch.results) = batch.i - 1)
    /\ [](batch.status = "returned" =>
            /\ batch.asked = batch.files
            /\ Len(batch.results) = Len(batch.files))
    /\ [](batch.reports /\ batch.status # "idle" =>
            /\ Len(batch.calls) = Len(batch.results)
            /\ \A j \in DOMAIN batch.calls :
                  batch.calls[j] = <<j, Len(batch.files), batch.results[j]>>)
    /\ [](~batch.reports => batch.calls = <<>>)
    /\ [][\A t \in AxiosOutcomes :
            BatchAnalyzeSettled(t) =>
                /\ Len(batch'.results) = batch.i
                /\ batch'.results[batch.i] = analyzeImage(t)
                /\ SubSeq(batch'.results, 1, batch.i - 1) = batch.results
                /\ batch'.status = IF batch.i < Len(batch.files)
                                   THEN "running" ELSE "returned"]_vars

\* A call with two files and an onProgress has returned: the first analysis
\* failed, the second one succeeded.
C34_Witness ==
    /\ batch.status = "returned"
    /\ batch.reports
    /\ Len(batch.files) = 2
    /\ Len(batch.results) = 2
    /\ Failed(batch.results[1])
    /\ ~Failed(batch.results[2])
    /\ batch.calls[2][1] = 2

----------------------------------------------------------------------------
(* services/api.js: generateMockResult                                     *)

\* Math.random() returns a number in [0, 1): here n / Scale, n in 0..Scale-1.
Scale == 1000

RandomDraws == {0, 400, 500, 501, 700, 999}

generationMethods == <<"GAN", "Diffusion", "Face Swap", "null">>

\* (an index drawn over the whole list, its last element null included)
MethodIndex_WholeList(r) == (r * Len(generationMethods)) \div Scale

\* Math.floor(Math.random() * (generationMethods.length - 1))
MethodIndex(r) == (r * (Len(generationMethods) - 1)) \div Scale

\* What the promise of generateMockResult resolves with, for the numbers that
\* Math.random() returns for isFake, for confidence and for the index of the
\* method; confidence is in units of 1 / Scale percent.
generateMockResult(rFake, rConfidence, rMethod) ==
    LET isFake == rFake * 2 > Scale
        confidence == 30 * rConfidence + 70 * Scale
        generationMethod == IF isFake
                            THEN generationMethods[MethodIndex(rMethod) + 1]
                            ELSE "null"
    IN
    [isNull |-> FALSE, success |-> TRUE,
     data |-> [kind |-> "data", isFake |-> isFake, confidence |-> confidence,
               generationMethod |-> generationMethod],
     error |-> "null"]

MockResponses ==
    {generateMockResult(rFake, rConfidence, rMethod) :
        rFake \in RandomDraws, rConfidence \in {0, 999},
        rMethod \in RandomDraws}

\* A sequential caller of the hook in mock mode (setMockMode(true)).
NextMock ==
    \/ Quiescent /\ \E files \in FileLists :
          WithinBounds(files) /\ addImages(files)
    \/ \E a \in BagToSet(adds), id \in FreshIds(issued) :
          PreviewSettled(a, TRUE, id)
    \/ Quiescent /\ clearAllImages
    \/ Quiescent /\ analyzeAllImages
    \/ \E run \in BagToSet(runs), response \in MockResponses :
          AnalyzeSettled(run, response)
    \/ Quiescent /\ \E imageId \in Ids(images) : reanalyzeImage(imageId)
    \/ \E re \in BagToSet(reanalyses), response \in MockResponses :
          ReanalyzeSettled(re, response)

SpecMock == Init /\ [][NextMock]_vars

Methods == {"GAN", "Diffusion", "Face Swap"}

\* The contract of a result for method: absent unless the verdict is fake.
MethodFits(data) ==
    IF data.isFake THEN data.generationMethod \in Methods
    ELSE data.generationMethod = "null"

\* C35: the simulated provider always succeeds and respects the contract of
\* the result for method: the generation method is null whenever the verdict
\* is not fake, and is one of GAN, Diffusion, Face Swap (never null) whenever
\* the verdict is fake; so in mock mode no item comes to error and every
\* completed item carries such a result.
C35_MockRespectsContract ==
    /\ [](\A rFake \in RandomDraws, rConfidence \in RandomDraws,
            rMethod \in RandomDraws :
            LET response == generateMockResult(rFake, rConfidence, rMethod)
            IN
            /\ ~response.isNull
            /\ response.success
            /\ response.error = "null"
            /\ response.data.kind = "data"
            /\ MethodFits(response.data))
    /\ [](\A n \in DOMAIN images :
            /\ images[n].status # "error"
            /\ images[n].status = "completed" =>
                  /\ images[n].result.kind = "data"
                  /\ MethodFits(images[n].result))

\* Two items analysed in mock mode: one fake, made by face swap, one real,
\* without a method.
C35_Witness ==
    /\ Quiescent
    /\ Len(images) = 2
    /\ images[1].status = "completed"
    /\ images[1].result.isFake
    /\ images[1].result.generationMethod = "Face Swap"
    /\ images[2].status = "completed"
    /\ ~images[2].result.isFake
    /\ images[2].result.generationMethod = "null"

====
